---- MODULE Spec2Model ----
(***************************************************************************)
(* Model of src/app.py: the Flask newsletter builder.                      *)
(*                                                                         *)
(* A text value (a Python str submitted in an article field) is a sequence *)
(* of one-character strings, so that strip() and escape() are computed     *)
(* character by character.  Theme names, routes, messages and header       *)
(* values are only ever compared, and are TLA+ strings.                    *)
(*                                                                         *)
(* A form is werkzeug's MultiDict: a function from field names to the list *)
(* of values submitted under that name.                                    *)
(*                                                                         *)
(* Each request is served by a worker with its own locals (theme, titles,  *)
(* summaries, images, links, articles); pc[w] is the worker's position in  *)
(* the handler.                                                            *)
(***************************************************************************)
EXTENDS Integers, Sequences, FiniteSets

VARIABLES pc, route, form, theme, titles, summaries, images, links, articles, response

vars == <<pc, route, form, theme, titles, summaries, images, links, articles, response>>

(***************************************************************************)
(* Bounds of the model.                                                    *)
(***************************************************************************)
\* longest list of values submitted under one field name
MaxLen == 2
\* number of request-handling workers of the concurrent specification
NumWorkers == 2

(***************************************************************************)
(* Module-level configuration (lines 23-24).                               *)
(***************************************************************************)
AVAILABLE_THEMES == {"classic", "magazine", "saffron"}

DEFAULT_THEME == "classic"

\* Python's None: what form.get(name) returns when the field was not submitted
None == "<None>"

(***************************************************************************)
(* Text helpers: str.strip(), markupsafe.escape(), markdown.markdown().    *)
(***************************************************************************)
IsSpace(c) == c = " "

RECURSIVE LStrip(_)
LStrip(s) == IF s = <<>> THEN <<>>
             ELSE IF IsSpace(Head(s)) THEN LStrip(Tail(s)) ELSE s

RECURSIVE RStrip(_)
RStrip(s) == IF s = <<>> THEN <<>>
             ELSE IF IsSpace(s[Len(s)]) THEN RStrip(SubSeq(s, 1, Len(s) - 1)) ELSE s

\* str.strip(): leading and trailing whitespace removed
Strip(s) == RStrip(LStrip(s))

\* escape with the ">" replacement left out
EntityNoGt(c) == CASE c = "&" -> <<"&", "a", "m", "p", ";">>
                   [] c = "<" -> <<"&", "l", "t", ";">>
                   [] c = "'" -> <<"&", "#", "3", "9", ";">>
                   [] c = "\"" -> <<"&", "#", "3", "4", ";">>
                   [] OTHER -> <<c>>

\* markupsafe.escape on one character
Entity(c) == CASE c = "&" -> <<"&", "a", "m", "p", ";">>
               [] c = "<" -> <<"&", "l", "t", ";">>
               [] c = ">" -> <<"&", "g", "t", ";">>
               [] c = "'" -> <<"&", "#", "3", "9", ";">>
               [] c = "\"" -> <<"&", "#", "3", "4", ";">>
               [] OTHER -> <<c>>

RECURSIVE EscapeFrom(_, _)
EscapeFrom(s, i) == IF i > Len(s) THEN <<>> ELSE Entity(s[i]) \o EscapeFrom(s, i + 1)

\* markupsafe.escape(s)
escape(s) == EscapeFrom(s, 1)

\* markdown.markdown(s) for a single line of plain text (no markup
\* characters): the empty text gives the empty document, any other text is
\* one paragraph
markdown(s) == IF s = <<>> THEN <<>>
               ELSE <<"<", "p", ">">> \o s \o <<"<", "/", "p", ">">>

\* the submitted theme passed on without the allow-list test
resolve_theme_unchecked(value) == IF value # None THEN value ELSE DEFAULT_THEME

(***************************************************************************)
(* resolve_theme (lines 27-29).                                            *)
(***************************************************************************)
resolve_theme(value) == IF value \in AVAILABLE_THEMES THEN value ELSE DEFAULT_THEME

(***************************************************************************)
(* MultiDict access.                                                       *)
(***************************************************************************)
getlist(f, name) == IF name \in DOMAIN f THEN f[name] ELSE <<>>

get(f, name) == IF getlist(f, name) = <<>> THEN None ELSE getlist(f, name)[1]

(***************************************************************************)
(* _getlist_fallback (lines 32-41).                                        *)
(***************************************************************************)
\* "if values:" alone, without the any(v.strip() ...) test
AnyPresent(values) == values # <<>>

\* any(v.strip() for v in values)
AnyNonBlank(values) == \E i \in 1..Len(values) : Strip(values[i]) # <<>>

RECURSIVE FallbackFrom(_, _, _)
FallbackFrom(f, names, k) ==
    IF k > Len(names)
    THEN IF names # <<>> THEN getlist(f, names[1]) ELSE <<>>
    ELSE IF getlist(f, names[k]) # <<>> /\ AnyNonBlank(getlist(f, names[k]))
         THEN getlist(f, names[k])
         ELSE FallbackFrom(f, names, k + 1)

getlist_fallback(f, names) == FallbackFrom(f, names, 1)

(***************************************************************************)
(* parse_articles (lines 44-75).                                           *)
(***************************************************************************)
Max2(a, b) == IF a >= b THEN a ELSE b

\* one position of zip_longest(..., fillvalue="")
Fill(list, i) == IF i <= Len(list) THEN list[i] ELSE <<>>

Min2(a, b) == IF a <= b THEN a ELSE b

\* zip() in place of zip_longest(): rows cut at the shortest list
zip_shortest(ts, ss, is, ls) ==
    [i \in 1..Min2(Min2(Len(ts), Len(ss)), Min2(Len(is), Len(ls))) |->
        <<ts[i], ss[i], is[i], ls[i]>>]

zip_longest(ts, ss, is, ls) ==
    [i \in 1..Max2(Max2(Len(ts), Len(ss)), Max2(Len(is), Len(ls))) |->
        <<Fill(ts, i), Fill(ss, i), Fill(is, i), Fill(ls, i)>>]

\* the dict appended at lines 66-73
Article(row) == [title   |-> escape(Strip(row[1])),
                 summary |-> markdown(Strip(row[2])),
                 image   |-> escape(Strip(row[3])),
                 url     |-> escape(Strip(row[4]))]

\* articles.insert(0, ...) in place of articles.append(...)
LoopBodyPrepend(acc, row) ==
    IF Strip(row[1]) = <<>> THEN acc ELSE <<Article(row)>> \o acc

\* the loop body, lines 62-73
LoopBody(acc, row) == IF Strip(row[1]) = <<>> THEN acc ELSE Append(acc, Article(row))

RECURSIVE LoopFrom(_, _, _)
LoopFrom(rows, i, acc) ==
    IF i > Len(rows) THEN acc ELSE LoopFrom(rows, i + 1, LoopBody(acc, rows[i]))

\* lines 52 and 59-75
build_articles(ts, ss, is, ls) == LoopFrom(zip_longest(ts, ss, is, ls), 1, <<>>)

parse_articles(f) ==
    build_articles(getlist_fallback(f, <<"title">>),
                   getlist_fallback(f, <<"summary", "desc">>),
                   getlist_fallback(f, <<"image", "img">>),
                   getlist_fallback(f, <<"url", "link">>))

(***************************************************************************)
(* render_newsletter (lines 78-122): the template and the context handed   *)
(* to it.                                                                  *)
(***************************************************************************)
render_newsletter(th, arts) ==
    [kind            |-> "newsletter",
     template_path   |-> <<"themes", th, "newsletter.html">>,
     brand_name      |-> "VAYUVEG",
     site_url        |-> "https://www.vayuveg.com",
     current_year    |-> 2025,
     articles        |-> arts,
     unsubscribe_url |-> "[UNSUBSCRIBE_URL]"]

\* abort(code, message)
abort(code, message) ==
    [status |-> code, body |-> [kind |-> "error", message |-> message], headers |-> <<>>]

\* a view's return value turned into a response by Flask, status 200
ok(body) == [status |-> 200, body |-> body, headers |-> <<>>]

NoResponse == [status |-> 0, body |-> [kind |-> "none"], headers |-> <<>>]

(***************************************************************************)
(* Requests.                                                               *)
(***************************************************************************)
PostRoutes == {"/export", "/preview", "/generate"}

GetRoutes == {"/", "/editor", "/health"}

\* all lists of at most n values of pool
Lists(pool, n) == UNION {[1..k -> pool] : k \in 0..n}

EmptyForm == [title |-> <<>>, summary |-> <<>>, desc |-> <<>>, image |-> <<>>,
              img |-> <<>>, url |-> <<>>, link |-> <<>>, theme |-> <<>>, brand |-> <<>>]

\* rows: the four preferred fields, lists of independent lengths
RowForms ==
    {[EmptyForm EXCEPT !.title = t, !.summary = s, !.image = i, !.url = u] :
        t \in Lists({<<>>, <<" ">>, <<" ", "A", " ">>, <<"<", "s", "c", "r", "i", "p", "t", ">">>}, MaxLen),
        s \in Lists({<<" ">>, <<"x">>}, MaxLen),
        i \in Lists({<<"<", "i", ">", " ">>}, MaxLen),
        u \in Lists({<<"a", "&", "\"", "'">>}, MaxLen)}

\* legacy field names submitted beside or instead of the preferred ones
AliasForms ==
    {[EmptyForm EXCEPT !.title = <<<<"A">>>>, !.summary = s, !.desc = d] :
        s \in Lists({<<" ">>, <<"x">>}, MaxLen),
        d \in Lists({<<" ">>, <<"y">>}, MaxLen)}
    \cup
    {[EmptyForm EXCEPT !.title = <<<<"A">>>>, !.image = i, !.img = j, !.url = u, !.link = l] :
        i \in Lists({<<" ">>}, MaxLen), j \in Lists({<<"j">>}, MaxLen),
        u \in Lists({<<>>}, MaxLen), l \in Lists({<<"k">>}, MaxLen)}

ThemeInputs == {"classic", "magazine", "saffron", "shodhsetu", "foo"}

BrandInputs == {"vayuveg", "shodhsetu", "acme"}

\* the singleton fields theme and brand, each missing or submitted once
SelectorForms ==
    {[EmptyForm EXCEPT !.title = t, !.theme = th, !.brand = b] :
        t \in {<<>>, <<<<"A">>>>},
        th \in {<<>>} \cup {<<x>> : x \in ThemeInputs},
        b \in {<<>>} \cup {<<x>> : x \in BrandInputs}}

Forms == RowForms \cup AliasForms \cup SelectorForms

\* the forms of the concurrent specification
ConcForms ==
    {[EmptyForm EXCEPT !.title = t, !.theme = th] :
        t \in {<<>>, <<<<"A">>>>, <<<<"B">>>>}, th \in {<<>>, <<"magazine">>}}

(***************************************************************************)
(* The state machine.                                                      *)
(***************************************************************************)
InitWorkers(n) ==
    /\ pc = [w \in 1..n |-> "idle"]
    /\ route = [w \in 1..n |-> "-"]
    /\ form = [w \in 1..n |-> EmptyForm]
    /\ theme = [w \in 1..n |-> None]
    /\ titles = [w \in 1..n |-> <<>>]
    /\ summaries = [w \in 1..n |-> <<>>]
    /\ images = [w \in 1..n |-> <<>>]
    /\ links = [w \in 1..n |-> <<>>]
    /\ articles = [w \in 1..n |-> <<>>]
    /\ response = [w \in 1..n |-> NoResponse]

Init == InitWorkers(1)

InitConc == InitWorkers(NumWorkers)

Workers == DOMAIN pc

locals == <<theme, titles, summaries, images, links, articles>>

\* Flask dispatches a request to the view of its route
dispatch(w, r, f) ==
    /\ route' = [route EXCEPT ![w] = r]
    /\ form' = [form EXCEPT ![w] = f]
    /\ pc' = [pc EXCEPT ![w] = IF r \in PostRoutes THEN "resolve_theme" ELSE "view"]
    /\ UNCHANGED <<locals, response>>

\* a POST request with a submitted form
post(w) == pc[w] = "idle" /\ \E r \in PostRoutes, f \in Forms : dispatch(w, r, f)

\* a POST request of the concurrent specification
post_conc(w) == pc[w] = "idle" /\ \E r \in PostRoutes, f \in ConcForms : dispatch(w, r, f)

\* a GET request
fetch(w) == pc[w] = "idle" /\ \E r \in GetRoutes : dispatch(w, r, EmptyForm)

\* the theme kept in one module-level variable instead of the handler's local
theme_step_shared(w) ==
    /\ pc[w] = "resolve_theme"
    /\ theme' = [v \in DOMAIN theme |-> resolve_theme(get(form[w], "theme"))]
    /\ pc' = [pc EXCEPT ![w] = "getlists"]
    /\ UNCHANGED <<route, form, titles, summaries, images, links, articles, response>>

\* theme = resolve_theme(request.form.get("theme")), lines 141, 161, 169
theme_step(w) ==
    /\ pc[w] = "resolve_theme"
    /\ theme' = [theme EXCEPT ![w] = resolve_theme(get(form[w], "theme"))]
    /\ pc' = [pc EXCEPT ![w] = "getlists"]
    /\ UNCHANGED <<route, form, titles, summaries, images, links, articles, response>>

\* parse_articles, lines 54-57
getlists_step(w) ==
    /\ pc[w] = "getlists"
    /\ titles' = [titles EXCEPT ![w] = getlist_fallback(form[w], <<"title">>)]
    /\ summaries' = [summaries EXCEPT ![w] = getlist_fallback(form[w], <<"summary", "desc">>)]
    /\ images' = [images EXCEPT ![w] = getlist_fallback(form[w], <<"image", "img">>)]
    /\ links' = [links EXCEPT ![w] = getlist_fallback(form[w], <<"url", "link">>)]
    /\ pc' = [pc EXCEPT ![w] = "zip"]
    /\ UNCHANGED <<route, form, theme, articles, response>>

\* parse_articles, lines 52 and 59-75
zip_step(w) ==
    /\ pc[w] = "zip"
    /\ articles' = [articles EXCEPT ![w] =
                        build_articles(titles[w], summaries[w], images[w], links[w])]
    /\ pc' = [pc EXCEPT ![w] = "view"]
    /\ UNCHANGED <<route, form, theme, titles, summaries, images, links, response>>

finish(w, resp) ==
    /\ response' = [response EXCEPT ![w] = resp]
    /\ pc' = [pc EXCEPT ![w] = "done"]
    /\ UNCHANGED <<route, form, locals>>

\* export without the Content-Disposition header
export_inline(w) ==
    /\ pc[w] = "view" /\ route[w] = "/export"
    /\ finish(w, IF articles[w] = <<>>
                 THEN abort(400, "No articles to export")
                 ELSE [status  |-> 200,
                       body    |-> render_newsletter(theme[w], articles[w]),
                       headers |-> <<<<"Content-Type", "text/html; charset=utf-8">>>>])

\* lines 144-155
export(w) ==
    /\ pc[w] = "view" /\ route[w] = "/export"
    /\ finish(w, IF articles[w] = <<>>
                 THEN abort(400, "No articles to export")
                 ELSE [status  |-> 200,
                       body    |-> render_newsletter(theme[w], articles[w]),
                       headers |-> <<<<"Content-Type", "text/html; charset=utf-8">>,
                                     <<"Content-Disposition",
                                       "attachment; filename=\"vayuveg-newsletter.html\"">>>>])

\* preview with the empty-list check of export and generate
preview_strict(w) ==
    /\ pc[w] = "view" /\ route[w] = "/preview"
    /\ finish(w, IF articles[w] = <<>>
                 THEN abort(400, "No articles provided")
                 ELSE ok(render_newsletter(theme[w], articles[w])))

\* preview handing the submitted brand field to the template unresolved
preview_brand(w) ==
    /\ pc[w] = "view" /\ route[w] = "/preview"
    /\ finish(w, ok([render_newsletter(theme[w], articles[w])
                        EXCEPT !.brand_name = get(form[w], "brand")]))

\* lines 163-164
preview(w) ==
    /\ pc[w] = "view" /\ route[w] = "/preview"
    /\ finish(w, ok(render_newsletter(theme[w], articles[w])))

\* generate without the empty-list check
generate_nocheck(w) ==
    /\ pc[w] = "view" /\ route[w] = "/generate"
    /\ finish(w, ok(render_newsletter(theme[w], articles[w])))

\* lines 172-175
generate(w) ==
    /\ pc[w] = "view" /\ route[w] = "/generate"
    /\ finish(w, IF articles[w] = <<>>
                 THEN abort(400, "No articles provided")
                 ELSE ok(render_newsletter(theme[w], articles[w])))

\* lines 125-127
dashboard(w) ==
    /\ pc[w] = "view" /\ route[w] = "/"
    /\ finish(w, ok([kind |-> "page", template_path |-> <<"dashboard.html">>]))

\* lines 130-132
editor(w) ==
    /\ pc[w] = "view" /\ route[w] = "/editor"
    /\ finish(w, ok([kind |-> "page", template_path |-> <<"editor.html">>]))

\* lines 178-180
health(w) ==
    /\ pc[w] = "view" /\ route[w] = "/health"
    /\ finish(w, ok([kind |-> "json", status |-> "ok"]))

\* the response is sent; the handler's frame is gone and the worker is free
reply(w) ==
    /\ pc[w] = "done"
    /\ pc' = [pc EXCEPT ![w] = "idle"]
    /\ route' = [route EXCEPT ![w] = "-"]
    /\ form' = [form EXCEPT ![w] = EmptyForm]
    /\ theme' = [theme EXCEPT ![w] = None]
    /\ titles' = [titles EXCEPT ![w] = <<>>]
    /\ summaries' = [summaries EXCEPT ![w] = <<>>]
    /\ images' = [images EXCEPT ![w] = <<>>]
    /\ links' = [links EXCEPT ![w] = <<>>]
    /\ articles' = [articles EXCEPT ![w] = <<>>]
    /\ response' = [response EXCEPT ![w] = NoResponse]

Next ==
    \/ \E w \in Workers : post(w)
    \/ \E w \in Workers : fetch(w)
    \/ \E w \in Workers : theme_step(w)
    \/ \E w \in Workers : getlists_step(w)
    \/ \E w \in Workers : zip_step(w)
    \/ \E w \in Workers : export(w)
    \/ \E w \in Workers : preview(w)
    \/ \E w \in Workers : generate(w)
    \/ \E w \in Workers : dashboard(w)
    \/ \E w \in Workers : editor(w)
    \/ \E w \in Workers : health(w)
    \/ \E w \in Workers : reply(w)

NextConc ==
    \/ \E w \in Workers : post_conc(w)
    \/ \E w \in Workers : fetch(w)
    \/ \E w \in Workers : theme_step(w)
    \/ \E w \in Workers : getlists_step(w)
    \/ \E w \in Workers : zip_step(w)
    \/ \E w \in Workers : export(w)
    \/ \E w \in Workers : preview(w)
    \/ \E w \in Workers : generate(w)
    \/ \E w \in Workers : dashboard(w)
    \/ \E w \in Workers : editor(w)
    \/ \E w \in Workers : health(w)
    \/ \E w \in Workers : reply(w)

Spec == Init /\ [][Next]_vars

SpecConc == InitConc /\ [][NextConc]_vars

(***************************************************************************)
(* Properties.                                                             *)
(***************************************************************************)
\* worker w serves a form request and theme_step has run
ThemeResolved(w) == route[w] \in PostRoutes /\ pc[w] \in {"getlists", "zip", "view", "done"}

\* worker w serves a form request and the four field lists are resolved
ListsResolved(w) == route[w] \in PostRoutes /\ pc[w] \in {"zip", "view", "done"}

\* worker w serves a form request and parse_articles has returned
Parsed(w) == route[w] \in PostRoutes /\ pc[w] \in {"view", "done"}

\* worker w has built the response of the request it serves
Done(w) == pc[w] = "done"

\* a text with a character that is not whitespace
NonBlank(s) == \E j \in 1..Len(s) : s[j] # " "

\* the positions of the title list whose title is not blank
KeptRows(ts) == {i \in 1..Len(ts) : NonBlank(ts[i])}

\* the number of rows: the length of the longest of the four lists
RowCount(w) == Max2(Max2(Len(titles[w]), Len(summaries[w])), Max2(Len(images[w]), Len(links[w])))

\* the article of row i of worker w's resolved lists, missing positions empty
RowArticle(w, i) ==
    [title   |-> escape(Strip(Fill(titles[w], i))),
     summary |-> markdown(Strip(Fill(summaries[w], i))),
     image   |-> escape(Strip(Fill(images[w], i))),
     url     |-> escape(Strip(Fill(links[w], i)))]

\* C1: parse_articles keeps exactly the rows with a non-blank title: the
\* output has one article per title position that is non-blank after
\* trimming, the article of every such row is in the output (built with the
\* empty string at the positions a shorter summary, image or url list lacks),
\* and every article of the output has a non-empty title.
C1_KeepsNonBlankTitleRows ==
    \A w \in Workers : Parsed(w) =>
        /\ Len(articles[w]) = Cardinality(KeptRows(titles[w]))
        /\ \A i \in KeptRows(titles[w]) :
              \E k \in 1..Len(articles[w]) : articles[w][k] = RowArticle(w, i)
        /\ \A k \in 1..Len(articles[w]) : articles[w][k].title # <<>>

\* C1 witness: a blank title row was dropped and a row past the end of the
\* summary, image and url lists was kept.
C1_Witness ==
    \E w \in Workers : Parsed(w) /\
        /\ \E j \in 1..Len(titles[w]) : j \notin KeptRows(titles[w])
        /\ \E i \in KeptRows(titles[w]) :
              /\ i > Len(summaries[w]) /\ i > Len(images[w]) /\ i > Len(links[w])
              /\ \E k \in 1..Len(articles[w]) : articles[w][k] = RowArticle(w, i)

ThemesOfSpec == {"classic", "magazine", "saffron", "shodhsetu"}

\* C2 as stated: the resolved theme is the submitted one when it is one of
\* classic, magazine, saffron, shodhsetu, and classic otherwise.
C2_Original ==
    \A w \in Workers : ThemeResolved(w) =>
        theme[w] = IF get(form[w], "theme") \in ThemesOfSpec
                   THEN get(form[w], "theme") ELSE "classic"

\* C2 amended: the resolved theme is the submitted one when it is one of
\* classic, magazine, saffron, and classic for every other input (shodhsetu
\* and a missing value included); it is always one of these three.
C2_ThemeAllowList ==
    \A w \in Workers : ThemeResolved(w) =>
        /\ theme[w] \in {"classic", "magazine", "saffron"}
        /\ theme[w] = IF get(form[w], "theme") \in {"classic", "magazine", "saffron"}
                      THEN get(form[w], "theme") ELSE "classic"

\* C2 witness: a submitted theme outside the allow-list was replaced by the
\* default.
C2_Witness ==
    \E w \in Workers : ThemeResolved(w) /\ pc[w] = "getlists"
        /\ get(form[w], "theme") = "foo" /\ theme[w] = "classic"

\* the brands of the specification and their display names
BrandNamesOfSpec == [vayuveg |-> "VAYUVEG", shodhsetu |-> "ShodhSetu"]

ResolvedBrandOfSpec(f) ==
    IF get(f, "brand") \in DOMAIN BrandNamesOfSpec THEN get(f, "brand") ELSE "vayuveg"

Rendered(w) == Done(w) /\ response[w].body.kind = "newsletter"

\* C3 as stated: the brand the renderer uses is the submitted brand when it
\* is vayuveg or shodhsetu, and vayuveg otherwise.
C3_Original ==
    \A w \in Workers : Rendered(w) =>
        response[w].body.brand_name = BrandNamesOfSpec[ResolvedBrandOfSpec(form[w])]

\* C3 amended: whatever the brand field holds (missing, known or unknown),
\* the renderer uses the one brand VAYUVEG with its site; the submitted brand
\* value never reaches the renderer.
C3_BrandIsFixed ==
    \A w \in Workers : Rendered(w) =>
        /\ response[w].body.brand_name = "VAYUVEG"
        /\ response[w].body.site_url = "https://www.vayuveg.com"

\* C3 witness: a preview of a form with brand shodhsetu was rendered.
C3_Witness ==
    \E w \in Workers : Rendered(w) /\ route[w] = "/preview"
        /\ get(form[w], "brand") = "shodhsetu"

\* no submitted title is non-blank
NoTitledRow(f) == \A i \in 1..Len(getlist(f, "title")) : ~NonBlank(getlist(f, "title")[i])

\* C4: /export and /generate answer 400 with their message and render
\* nothing when no submitted row has a non-blank title, and 200 with the
\* rendered newsletter otherwise.
C4_EmptyIsRejected ==
    \A w \in Workers : (Done(w) /\ route[w] \in {"/export", "/generate"}) =>
        IF NoTitledRow(form[w])
        THEN /\ response[w].status = 400
             /\ response[w].body.kind = "error"
             /\ response[w].body.message = IF route[w] = "/export"
                                           THEN "No articles to export"
                                           ELSE "No articles provided"
        ELSE /\ response[w].status = 200
             /\ response[w].body.kind = "newsletter"
             /\ response[w].body.articles = articles[w]
             /\ response[w].body.articles # <<>>

\* C4 witness: /generate rejected a form whose titles are all blank.
C4_Witness ==
    \E w \in Workers : Done(w) /\ route[w] = "/generate"
        /\ getlist(form[w], "title") # <<>> /\ NoTitledRow(form[w])
        /\ response[w].status = 400

\* C5: /preview answers 200 with the rendered newsletter for every form.
C5_PreviewNeverFails ==
    \A w \in Workers : (Done(w) /\ route[w] = "/preview") =>
        /\ response[w].status = 200
        /\ response[w].body.kind = "newsletter"

\* C5 witness: a preview with no article and an unknown theme and brand.
C5_Witness ==
    \E w \in Workers : Done(w) /\ route[w] = "/preview"
        /\ articles[w] = <<>>
        /\ get(form[w], "theme") = "foo" /\ get(form[w], "brand") = "acme"
        /\ response[w].status = 200

\* the value of a response header, None when the header is not set
HeaderOf(resp, name) ==
    LET S == {i \in 1..Len(resp.headers) : resp.headers[i][1] = name}
    IN  IF S = {} THEN None ELSE resp.headers[CHOOSE i \in S : TRUE][2]

Exported(w) == Done(w) /\ route[w] = "/export" /\ response[w].status = 200

\* C6 as stated: a successful export names the file
\* <resolved brand>-weekly-newsletter.html.
C6_Original ==
    \A w \in Workers : Exported(w) =>
        HeaderOf(response[w], "Content-Disposition") =
            IF ResolvedBrandOfSpec(form[w]) = "shodhsetu"
            THEN "attachment; filename=\"shodhsetu-weekly-newsletter.html\""
            ELSE "attachment; filename=\"vayuveg-weekly-newsletter.html\""

\* C6 amended: a successful export carries Content-Disposition: attachment;
\* filename="vayuveg-newsletter.html", whatever the brand field holds.
C6_ExportFilename ==
    \A w \in Workers : Exported(w) =>
        HeaderOf(response[w], "Content-Disposition") =
            "attachment; filename=\"vayuveg-newsletter.html\""

\* C6 witness: a successful export of a form with brand vayuveg.
C6_Witness ==
    \E w \in Workers : Exported(w) /\ get(form[w], "brand") = "vayuveg"

\* a list with at least one value that is not blank
HasNonBlank(values) == \E i \in 1..Len(values) : NonBlank(values[i])

\* the list of the first candidate name with a non-blank value, the
\* preferred name's list when there is none
FirstNonBlankList(f, names) ==
    LET C == {k \in 1..Len(names) : HasNonBlank(getlist(f, names[k]))}
    IN  IF C = {} THEN getlist(f, names[1])
        ELSE getlist(f, names[CHOOSE k \in C : \A j \in C : k <= j])

\* candidate name lists of one to three names
NameLists == UNION {[1..n -> {"summary", "desc", "img"}] : n \in 1..3}

\* C7: _getlist_fallback returns the whole list of the first candidate name
\* with a value that is non-blank after trimming, and the preferred name's
\* list when no candidate has one: for the four calls of parse_articles and
\* for every list of up to three candidate names.
C7_FirstNonBlankWins ==
    \A w \in Workers : ListsResolved(w) =>
        /\ titles[w] = FirstNonBlankList(form[w], <<"title">>)
        /\ summaries[w] = FirstNonBlankList(form[w], <<"summary", "desc">>)
        /\ images[w] = FirstNonBlankList(form[w], <<"image", "img">>)
        /\ links[w] = FirstNonBlankList(form[w], <<"url", "link">>)
        /\ (pc[w] = "zip" =>
              \A ns \in NameLists :
                  getlist_fallback(form[w], ns) = FirstNonBlankList(form[w], ns))

\* C7 witness: the summary list was submitted all blank and the list of the
\* alias desc, which has a non-blank value, was returned.
C7_Witness ==
    \E w \in Workers : ListsResolved(w)
        /\ form[w].summary # <<>> /\ ~HasNonBlank(form[w].summary)
        /\ HasNonBlank(form[w].desc)
        /\ summaries[w] = form[w].desc

\* C8: parse_articles returns at most as many articles as the longest of the
\* four resolved lists has positions, and the articles are those of distinct
\* rows in increasing row order.
C8_CountAndOrder ==
    \A w \in Workers : Parsed(w) =>
        /\ Len(articles[w]) <= RowCount(w)
        /\ \E f \in [1..Len(articles[w]) -> 1..RowCount(w)] :
              /\ \A k \in 1..Len(articles[w]) : articles[w][k] = RowArticle(w, f[k])
              /\ \A k \in 1..Len(articles[w]), l \in 1..Len(articles[w]) :
                    k < l => f[k] < f[l]

\* C8 witness: two rows with different contents were kept.
C8_Witness ==
    \E w \in Workers : Parsed(w) /\ Len(articles[w]) >= 2
        /\ articles[w][1] # articles[w][2]

\* the response of a route to a form, from the form alone
ResponseTo(r, f) ==
    CASE r = "/preview" ->
            [status |-> 200,
             body |-> render_newsletter(resolve_theme(get(f, "theme")), parse_articles(f)),
             headers |-> <<>>]
      [] r = "/generate" ->
            IF parse_articles(f) = <<>>
            THEN [status |-> 400,
                  body |-> [kind |-> "error", message |-> "No articles provided"],
                  headers |-> <<>>]
            ELSE [status |-> 200,
                  body |-> render_newsletter(resolve_theme(get(f, "theme")), parse_articles(f)),
                  headers |-> <<>>]
      [] r = "/export" ->
            IF parse_articles(f) = <<>>
            THEN [status |-> 400,
                  body |-> [kind |-> "error", message |-> "No articles to export"],
                  headers |-> <<>>]
            ELSE [status |-> 200,
                  body |-> render_newsletter(resolve_theme(get(f, "theme")), parse_articles(f)),
                  headers |-> <<<<"Content-Type", "text/html; charset=utf-8">>,
                                <<"Content-Disposition",
                                  "attachment; filename=\"vayuveg-newsletter.html\"">>>>]
      [] r = "/health" ->
            [status |-> 200, body |-> [kind |-> "json", status |-> "ok"], headers |-> <<>>]
      [] r = "/" ->
            [status |-> 200,
             body |-> [kind |-> "page", template_path |-> <<"dashboard.html">>],
             headers |-> <<>>]
      [] r = "/editor" ->
            [status |-> 200,
             body |-> [kind |-> "page", template_path |-> <<"editor.html">>],
             headers |-> <<>>]

\* C9: whatever the other workers do and did, the response a worker builds
\* is the one its own route and form determine.
C9_ResponseFromOwnForm ==
    \A w \in Workers : Done(w) => response[w] = ResponseTo(route[w], form[w])

\* C9 witness: two requests with different themes were served at the same
\* time and both responses are built.
C9_Witness ==
    \E v \in Workers, w \in Workers :
        /\ v # w /\ Done(v) /\ Done(w)
        /\ Rendered(v) /\ Rendered(w)
        /\ get(form[v], "theme") = "magazine" /\ get(form[w], "theme") = None
        /\ response[v].body.template_path # response[w].body.template_path

\* the characters that escape replaces
Markup == {"<", ">", "\"", "'"}

NoRawMarkup(s) == \A j \in 1..Len(s) : s[j] \notin Markup

\* an escaped text decoded: each entity back to its character
RECURSIVE Unescape(_)
Unescape(s) ==
    IF s = <<>> THEN <<>>
    ELSE IF Len(s) >= 5 /\ SubSeq(s, 1, 5) = <<"&", "a", "m", "p", ";">>
         THEN <<"&">> \o Unescape(SubSeq(s, 6, Len(s)))
    ELSE IF Len(s) >= 4 /\ SubSeq(s, 1, 4) = <<"&", "l", "t", ";">>
         THEN <<"<">> \o Unescape(SubSeq(s, 5, Len(s)))
    ELSE IF Len(s) >= 4 /\ SubSeq(s, 1, 4) = <<"&", "g", "t", ";">>
         THEN <<">">> \o Unescape(SubSeq(s, 5, Len(s)))
    ELSE IF Len(s) >= 5 /\ SubSeq(s, 1, 5) = <<"&", "#", "3", "9", ";">>
         THEN <<"'">> \o Unescape(SubSeq(s, 6, Len(s)))
    ELSE IF Len(s) >= 5 /\ SubSeq(s, 1, 5) = <<"&", "#", "3", "4", ";">>
         THEN <<"\"">> \o Unescape(SubSeq(s, 6, Len(s)))
    ELSE <<Head(s)>> \o Unescape(Tail(s))

ScriptTag == <<"<", "s", "c", "r", "i", "p", "t", ">">>

ScriptTagEscaped == <<"&", "l", "t", ";", "s", "c", "r", "i", "p", "t", "&", "g", "t", ";">>

\* C10: in every article the title, image and url hold no raw <, > or quote
\* and decode to the trimmed values of one input row; a title <script> is in
\* the output as &lt;script&gt;.
C10_PlainFieldsEscaped ==
    \A w \in Workers : Parsed(w) =>
        /\ \A k \in 1..Len(articles[w]) :
              /\ NoRawMarkup(articles[w][k].title)
              /\ NoRawMarkup(articles[w][k].image)
              /\ NoRawMarkup(articles[w][k].url)
              /\ \E i \in 1..RowCount(w) :
                    /\ Unescape(articles[w][k].title) = Strip(Fill(titles[w], i))
                    /\ Unescape(articles[w][k].image) = Strip(Fill(images[w], i))
                    /\ Unescape(articles[w][k].url) = Strip(Fill(links[w], i))
        /\ \A i \in 1..Len(titles[w]) :
              Strip(titles[w][i]) = ScriptTag =>
                  \E k \in 1..Len(articles[w]) : articles[w][k].title = ScriptTagEscaped

\* C10 witness: an article with the title <script>, an image and a url.
C10_Witness ==
    \E w \in Workers : Parsed(w) /\
        \E k \in 1..Len(articles[w]) :
            /\ articles[w][k].title = ScriptTagEscaped
            /\ articles[w][k].image # <<>>
            /\ articles[w][k].url # <<>>

====
